---- MODULE Spec2Model ----
(***************************************************************************)
(* The site service of deployment-drivers/go/http/main.go: startup (main)  *)
(* and the four handlers of siteServer (create, get, update, delete).      *)
(* The remote management API is external: every reply it gives to an       *)
(* outbound call is an input of the handler, drawn from a small set.       *)
(***************************************************************************)
EXTENDS Integers, Sequences, FiniteSets, TLC

VARIABLES
    phase,     \* position of main: "start", "serving", "fatal" (log.Fatal), "panic"
    flags,     \* the parsed command line flags
    server,    \* the siteServer struct built by main
    handler,   \* the handler that served the last request ("none" before the first)
    request,   \* the inbound request it served: [id, body]
    calls,     \* the outbound calls it issued, in order, each with the remote reply
    response,  \* what it wrote to the http.ResponseWriter: [code, text, json]
    logged     \* what it wrote to the server-side log

vars == <<phase, flags, server, handler, request, calls, response, logged>>

-----------------------------------------------------------------------------
(* Bounds of the model *)

\* longest resource list of an exported deployment
MaxResources == 2
\* longest organization list of a current-user reply
MaxOrgs == 2

-----------------------------------------------------------------------------
(* Program constants *)

StatusOK == 200
StatusAccepted == 202
StatusConflict == 409
StatusBadRequest == 400
StatusInternalServerError == 500
\* apitype.DeploymentSchemaVersionCurrent
DeploymentSchemaVersionCurrent == 3

RootStackType == "pulumi:pulumi:Stack"

-----------------------------------------------------------------------------
(* Values *)

SeqsUpTo(S, n) == UNION {[1..k -> S] : k \in 0..n}

Ids == {"site1", "site2"}
Contents == {"hello", "bye"}

\* r.Body of an inbound request: "valid" decodes, "malformed" and "empty" do not
RequestBodies ==
    [kind : {"valid"}, id : Ids, content : Contents]
        \cup [kind : {"malformed", "empty"}, id : {""}, content : {""}]

NoBody == [kind |-> "empty", id |-> "", content |-> ""]

\* *operationStatus: nil, or an operation with a kind
NoOperation == [present |-> FALSE, kind |-> ""]
Operations ==
    {NoOperation} \cup [present : {TRUE}, kind : {"update", "destroy", "preview"}]

\* apitype.ResourceV3, reduced to its type and its "websiteUrl" output:
\* url = "" when the output is absent or is not a string
Resources ==
    [type : {RootStackType}, url : {"http://one", "http://two", ""}]
        \cup {[type |-> "aws:s3/bucket:Bucket", url |-> "http://bucket"]}

OrgLogins == {"org1", "org2"}

\* A reply of the remote API to one outbound call. err: the transport failed
\* (body is then the error text). decodeOk: the body decodes as the JSON the
\* caller expects. op, version, deployOk, resources, orgs: the decoded payload.
Reply(err, code, body, decodeOk, op, version, deployOk, resources, orgs) ==
    [err |-> err, code |-> code, body |-> body, decodeOk |-> decodeOk, op |-> op,
     version |-> version, deployOk |-> deployOk, resources |-> resources,
     orgs |-> orgs]

Plain(err, code, body) ==
    Reply(err, code, body, TRUE, NoOperation, 0, TRUE, <<>>, <<>>)

TransportErrors == {Plain(TRUE, 0, "dial tcp: timeout")}
UpstreamErrors ==
    {Plain(FALSE, StatusConflict, "stack already exists")}
        \cup {Plain(FALSE, StatusInternalServerError, b) :
                  b \in {"upstream secret", "quota exceeded"}}

\* replies to the POSTs of create, update and delete
WriteReplies ==
    TransportErrors \cup UpstreamErrors
        \cup {Plain(FALSE, c, "") : c \in {StatusOK, StatusAccepted}}

\* replies to GET /stacks/{org}/{project}/{id}
StackReplies ==
    TransportErrors \cup UpstreamErrors
        \cup {Reply(FALSE, StatusOK, "", FALSE, NoOperation, 0, TRUE, <<>>, <<>>)}
        \cup {Reply(FALSE, StatusOK, "", TRUE, o, 0, TRUE, <<>>, <<>>) : o \in Operations}

\* replies to GET /stacks/{org}/{project}/{id}/export. The deployment of an
\* export of another schema version is never unmarshalled, so short resource
\* lists stand for it
ExportReplies ==
    TransportErrors \cup UpstreamErrors
        \cup {Reply(FALSE, StatusOK, "", FALSE, NoOperation, 0, TRUE, <<>>, <<>>)}
        \cup {Reply(FALSE, StatusOK, "", TRUE, NoOperation, v, FALSE, <<>>, <<>>) :
                  v \in {2, DeploymentSchemaVersionCurrent}}
        \cup {Reply(FALSE, StatusOK, "", TRUE, NoOperation, 2, TRUE, rs, <<>>) :
                  rs \in SeqsUpTo(Resources, 1)}
        \cup {Reply(FALSE, StatusOK, "", TRUE, NoOperation,
                     DeploymentSchemaVersionCurrent, TRUE, rs, <<>>) :
                  rs \in SeqsUpTo(Resources, MaxResources)}

\* replies to GET /user
UserReplies ==
    TransportErrors \cup UpstreamErrors
        \cup {Reply(FALSE, StatusOK, "", FALSE, NoOperation, 0, TRUE, <<>>, <<>>)}
        \cup {Reply(FALSE, StatusOK, "", TRUE, NoOperation, 0, TRUE, <<>>, os) :
                  os \in SeqsUpTo(OrgLogins, MaxOrgs)}

NoReply == Plain(FALSE, 0, "")

-----------------------------------------------------------------------------
(* Request and response shapes *)

\* path.Join: empty elements are dropped
PathJoin(elems) == SelectSeq(elems, LAMBDA e : e # "")

\* DeploymentSettings; the zero value has every field empty
DeploymentSettings(branch, repoDir, env, roleArn, sessionName, repository, paths, deployCommits) ==
    [branch |-> branch, repoDir |-> repoDir, environmentVariables |-> env,
     roleArn |-> roleArn, sessionName |-> sessionName, repository |-> repository,
     paths |-> paths, deployCommits |-> deployCommits, previewPullRequests |-> FALSE]

ZeroSettings == DeploymentSettings("", "", <<>>, "", "", "", <<>>, FALSE)

\* the body of an outbound call: createStackRequest, DeploymentSettings or
\* createDeploymentRequest (which embeds DeploymentSettings)
CallBody(stackName, settings, inheritSettings, operation) ==
    [stackName |-> stackName, settings |-> settings,
     inheritSettings |-> inheritSettings, operation |-> operation]

Call(method, url, body, reply) ==
    [method |-> method, url |-> url, body |-> body, reply |-> reply]

\* what a handler did: the calls it issued, the response and the log lines
Result(cs, code, text, json, lg) ==
    [calls |-> cs, response |-> [code |-> code, text |-> text, json |-> json],
     logged |-> lg]

\* json.NewEncoder(w).Encode(&getSiteResponse{...}): url and status are omitempty
EncodeSite(id, url, status) ==
    <<<<"id", id>>>>
        \o (IF url # "" THEN <<<<"url", url>>>> ELSE <<>>)
        \o (IF status # "" THEN <<<<"status", status>>>> ELSE <<>>)

\* mutant: the decode error is ignored
DecodeFails_M(body) == FALSE

\* json.NewDecoder(r.Body).Decode(&v) returns an error
DecodeFails(body) == body.kind # "valid"

\* mutant: the error is written to the caller as well
internalServerError_M(cs, lg, where, detail) ==
    Result(cs, StatusInternalServerError, detail, <<>>,
           lg \o <<<<"Internal Server Error", where, detail, "">>>>)

\* internalServerError: a fixed body to the caller, the error to the log
internalServerError(cs, lg, where, detail) ==
    Result(cs, StatusInternalServerError, "Internal Server Error", <<>>,
           lg \o <<<<"Internal Server Error", where, detail, "">>>>)

-----------------------------------------------------------------------------
(* Outcome tests on a remote reply *)

\* mutant: a conflict is an error
RegisterOk_M(r) == ~r.err /\ r.code = StatusOK

\* create: the stack registration went through (200, or 409 stack already exists)
RegisterOk(r) == ~r.err /\ (r.code = StatusOK \/ r.code = StatusConflict)

\* mutant: the status of the settings reply is not looked at
SettingsOk_M(r) == TRUE

\* create: the deployment settings were stored
SettingsOk(r) == ~r.err /\ r.code = StatusOK

\* mutant: only a transport failure counts
TriggerOk_M(r) == ~r.err

\* updateStack, delete: the deployment was accepted
TriggerOk(r) == ~r.err /\ r.code = StatusAccepted

-----------------------------------------------------------------------------
(* siteServer.updateStack *)

\* mutant: the stored settings are not inherited
updateStackRequest_M(s, stack, content, r) ==
    Call("POST", PathJoin(<<"preview", s.org, s.project, stack, "deployments">>),
         CallBody("",
                  DeploymentSettings("", "", <<<<"SITE_CONTENT", content>>>>,
                                     "", "", "", <<>>, FALSE),
                  FALSE, "update"),
         r)

updateStackRequest(s, stack, content, r) ==
    Call("POST", PathJoin(<<"preview", s.org, s.project, stack, "deployments">>),
         CallBody("",
                  DeploymentSettings("", "", <<<<"SITE_CONTENT", content>>>>,
                                     "", "", "", <<>>, FALSE),
                  TRUE, "update"),
         r)

\* [call, failed, detail]: the call issued, and the error returned if any
updateStack(s, stack, content, r) ==
    [call |-> updateStackRequest(s, stack, content, r),
     failed |-> ~TriggerOk(r),
     detail |-> IF TriggerOk(r) THEN "" ELSE r.body]

-----------------------------------------------------------------------------
(* siteServer.create *)

createStackCall(s, stack, r) ==
    Call("POST", PathJoin(<<"stacks", s.org, s.project>>),
         CallBody(stack, ZeroSettings, FALSE, ""), r)

createSettings(s) ==
    DeploymentSettings(s.branch, s.dir, <<<<"AWS_REGION", "us-west-2">>>>,
                       s.roleARN, s.sessionName, s.repository,
                       IF s.dir # "" THEN <<<<s.dir, "/**">>>> ELSE <<>>,
                       TRUE)

createSettingsCall(s, stack, r) ==
    Call("POST",
         PathJoin(<<"preview", s.org, s.project, stack, "deployment", "settings">>),
         CallBody("", createSettings(s), FALSE, ""), r)

create(s, body, r1, r2, r3) ==
    IF DecodeFails(body)
    THEN Result(<<>>, StatusBadRequest, "failed to parse create request", <<>>, <<>>)
    ELSE
    LET stack == body.id
        c1 == createStackCall(s, stack, r1)
        c2 == createSettingsCall(s, stack, r2)
        u  == updateStack(s, stack, body.content, r3)
        lg == <<<<"created stack", s.org, s.project, stack>>>>
    IN  IF ~RegisterOk(r1)
        THEN internalServerError(<<c1>>, <<>>, "creating stack", r1.body)
        ELSE IF ~SettingsOk(r2)
        THEN internalServerError(<<c1, c2>>, lg, "configuring deployment", r2.body)
        ELSE IF u.failed
        THEN internalServerError(<<c1, c2, u.call>>, lg, "starting deployment", u.detail)
        ELSE Result(<<c1, c2, u.call>>, StatusAccepted, "",
                    EncodeSite(stack, "", ""), lg)

-----------------------------------------------------------------------------
(* siteServer.update and siteServer.delete *)

\* mutant: the 202 carries the id, as that of create does
update_M(s, id, body, r) ==
    IF DecodeFails(body)
    THEN Result(<<>>, StatusBadRequest, "failed to parse update request", <<>>, <<>>)
    ELSE
    LET u == updateStack(s, id, body.content, r)
    IN  IF u.failed
        THEN internalServerError(<<u.call>>, <<>>, "starting deployment", u.detail)
        ELSE Result(<<u.call>>, StatusAccepted, "", EncodeSite(id, "", ""), <<>>)

update(s, id, body, r) ==
    IF DecodeFails(body)
    THEN Result(<<>>, StatusBadRequest, "failed to parse update request", <<>>, <<>>)
    ELSE
    LET u == updateStack(s, id, body.content, r)
    IN  IF u.failed
        THEN internalServerError(<<u.call>>, <<>>, "starting deployment", u.detail)
        ELSE Result(<<u.call>>, StatusAccepted, "", <<>>, <<>>)

deleteCall(s, id, r) ==
    Call("POST", PathJoin(<<"preview", s.org, s.project, id, "deployments">>),
         CallBody("", ZeroSettings, TRUE, "destroy"), r)

delete(s, id, r) ==
    IF ~TriggerOk(r)
    THEN internalServerError(<<deleteCall(s, id, r)>>, <<>>, "starting deployment", r.body)
    ELSE Result(<<deleteCall(s, id, r)>>, StatusAccepted, "", <<>>, <<>>)

-----------------------------------------------------------------------------
(* siteServer.get *)

\* mutant: every current operation is an update
StatusOf_M(operation) == IF operation.present THEN "UPDATING" ELSE "IDLE"

\* the derived Site.status
StatusOf(operation) ==
    IF operation.present
    THEN IF operation.kind = "destroy" THEN "DELETING" ELSE "UPDATING"
    ELSE "IDLE"

\* the first closure of get: [failed, detail, operation].
\* SetDoNotParseResponse leaves resp.Body() empty, so a non-200 gives an empty error
getOperation(r) ==
    IF r.err THEN [failed |-> TRUE, detail |-> r.body, operation |-> NoOperation]
    ELSE IF r.code # StatusOK
    THEN [failed |-> TRUE, detail |-> "", operation |-> NoOperation]
    ELSE IF ~r.decodeOk
    THEN [failed |-> TRUE, detail |-> "invalid character", operation |-> NoOperation]
    ELSE [failed |-> FALSE, detail |-> "", operation |-> r.op]

\* index of the first resource of type pulumi:pulumi:Stack, 0 when there is none
RECURSIVE FirstStackFrom(_, _)
FirstStackFrom(resources, i) ==
    IF i > Len(resources) THEN 0
    ELSE IF resources[i].type = RootStackType THEN i
    ELSE FirstStackFrom(resources, i + 1)

\* mutant: the scan starts one element late
FirstStackResource_M(resources) == FirstStackFrom(resources, 2)

FirstStackResource(resources) == FirstStackFrom(resources, 1)

\* the second closure of get: [failed, detail, url], url being
\* outputs["websiteUrl"].(string), "" when outputs is nil
getOutputs(r) ==
    IF r.err THEN [failed |-> TRUE, detail |-> r.body, url |-> ""]
    ELSE IF r.code # StatusOK THEN [failed |-> TRUE, detail |-> "", url |-> ""]
    ELSE IF ~r.decodeOk THEN [failed |-> TRUE, detail |-> "invalid character", url |-> ""]
    ELSE IF r.version # DeploymentSchemaVersionCurrent
    THEN [failed |-> FALSE, detail |-> "", url |-> ""]
    ELSE IF ~r.deployOk
    THEN [failed |-> TRUE, detail |-> "unmarshaling deployment", url |-> ""]
    ELSE IF FirstStackResource(r.resources) = 0
    THEN [failed |-> FALSE, detail |-> "", url |-> ""]
    ELSE [failed |-> FALSE, detail |-> "",
          url |-> r.resources[FirstStackResource(r.resources)].url]

getStackCall(s, id, r) ==
    Call("GET", PathJoin(<<"stacks", s.org, s.project, id>>),
         CallBody("", ZeroSettings, FALSE, ""), r)

getExportCall(s, id, r) ==
    Call("GET", PathJoin(<<"stacks", s.org, s.project, id, "export">>),
         CallBody("", ZeroSettings, FALSE, ""), r)

get(s, id, r1, r2) ==
    LET o  == getOperation(r1)
        x  == getOutputs(r2)
        c1 == getStackCall(s, id, r1)
        c2 == getExportCall(s, id, r2)
    IN  IF o.failed
        THEN internalServerError(<<c1>>, <<>>, "getting stack", o.detail)
        ELSE IF x.failed
        THEN internalServerError(<<c1, c2>>, <<>>, "getting stack outputs", x.detail)
        ELSE Result(<<c1, c2>>, StatusOK, "",
                    EncodeSite(id, x.url, StatusOf(o.operation)), <<>>)

-----------------------------------------------------------------------------
(* main *)

Flags ==
    [repository : {"", "owner/repo"}, branch : {"main"}, dir : {"", "site"},
     roleARN : {"", "arn:aws:iam::role"}, sessionName : {"site-deploy"},
     apiToken : {"", "pul-token"}, org : {"", "org1"}, project : {"", "sites"}]

NoServer ==
    [repository |-> "", branch |-> "", dir |-> "", roleARN |-> "",
     sessionName |-> "", apiToken |-> "", org |-> "", project |-> ""]

\* the first required flag that is missing, "" when none is
MissingFlag(f) ==
    IF f.repository = "" THEN "the -repo flag is required"
    ELSE IF f.roleARN = "" THEN "the -role-arn flag is required"
    ELSE IF f.apiToken = "" THEN "the -token flag is required"
    ELSE IF f.project = "" THEN "the -project flag is required"
    ELSE ""

\* mutant: an empty organization list gives an empty default organization
defaultOrg_M(r) ==
    IF r.err THEN [failed |-> TRUE, detail |-> r.body, panics |-> FALSE, org |-> ""]
    ELSE IF r.code # StatusOK
    THEN [failed |-> TRUE, detail |-> "", panics |-> FALSE, org |-> ""]
    ELSE IF ~r.decodeOk
    THEN [failed |-> TRUE, detail |-> "decoding response", panics |-> FALSE, org |-> ""]
    ELSE [failed |-> FALSE, detail |-> "", panics |-> FALSE,
          org |-> IF Len(r.orgs) = 0 THEN "" ELSE r.orgs[1]]

\* the closure of main: [failed, detail, panics, org].
\* body.Organizations[0] of an empty list is an index out of range: a panic
defaultOrg(r) ==
    IF r.err THEN [failed |-> TRUE, detail |-> r.body, panics |-> FALSE, org |-> ""]
    ELSE IF r.code # StatusOK
    THEN [failed |-> TRUE, detail |-> "", panics |-> FALSE, org |-> ""]
    ELSE IF ~r.decodeOk
    THEN [failed |-> TRUE, detail |-> "decoding response", panics |-> FALSE, org |-> ""]
    ELSE IF Len(r.orgs) = 0
    THEN [failed |-> FALSE, detail |-> "", panics |-> TRUE, org |-> ""]
    ELSE [failed |-> FALSE, detail |-> "", panics |-> FALSE, org |-> r.orgs[1]]

userCall(r) ==
    Call("GET", <<"user">>, CallBody("", ZeroSettings, FALSE, ""), r)

ServerOf(f, org) ==
    [repository |-> f.repository, branch |-> f.branch, dir |-> f.dir,
     roleARN |-> f.roleARN, sessionName |-> f.sessionName,
     apiToken |-> f.apiToken, org |-> org, project |-> f.project]

\* main up to http.ListenAndServe: [phase, server, calls, logged]
Startup(f, r) ==
    LET d == defaultOrg(r)
        fatal(cs, msg, detail) ==
            [phase |-> "fatal", server |-> NoServer, calls |-> cs,
             logged |-> <<<<"fatal", msg, detail, "">>>>]
    IN  IF MissingFlag(f) # "" THEN fatal(<<>>, MissingFlag(f), "")
        ELSE IF f.org # ""
        THEN [phase |-> "serving", server |-> ServerOf(f, f.org), calls |-> <<>>,
              logged |-> <<>>]
        ELSE IF d.failed
        THEN fatal(<<userCall(r)>>, "getting default organization", d.detail)
        ELSE IF d.panics
        THEN [phase |-> "panic", server |-> NoServer, calls |-> <<userCall(r)>>,
              logged |-> <<<<"panic", "index out of range", "", "">>>>]
        ELSE [phase |-> "serving", server |-> ServerOf(f, d.org),
              calls |-> <<userCall(r)>>, logged |-> <<>>]

-----------------------------------------------------------------------------
(* The state machine *)

NoResponse == [code |-> 0, text |-> "", json |-> <<>>]

Init ==
    /\ phase = "start"
    /\ flags \in Flags
    /\ server = NoServer
    /\ handler = "none"
    /\ request = [id |-> "", body |-> NoBody]
    /\ calls = <<>>
    /\ response = NoResponse
    /\ logged = <<>>

Main ==
    /\ phase = "start"
    /\ \E r \in UserReplies :
          LET st == Startup(flags, r)
          IN  /\ phase' = st.phase
              /\ server' = st.server
              /\ calls' = st.calls
              /\ logged' = st.logged
    /\ handler' = "main"
    /\ UNCHANGED <<flags, request, response>>

Serve(h, id, body, res) ==
    /\ handler' = h
    /\ request' = [id |-> id, body |-> body]
    /\ calls' = res.calls
    /\ response' = res.response
    /\ logged' = res.logged
    /\ UNCHANGED <<phase, flags, server>>

\* the replies to draw for a call: none when the handler does not issue it
RepliesIf(issued, replies) == IF issued THEN replies ELSE {NoReply}

\* POST /sites
Create ==
    /\ phase = "serving"
    /\ \E body \in RequestBodies :
       \E r1 \in RepliesIf(~DecodeFails(body), WriteReplies) :
       \E r2 \in RepliesIf(~DecodeFails(body) /\ RegisterOk(r1), WriteReplies) :
       \E r3 \in RepliesIf(~DecodeFails(body) /\ RegisterOk(r1) /\ SettingsOk(r2),
                           WriteReplies) :
          Serve("create", "", body, create(server, body, r1, r2, r3))

\* GET /sites/:id
Get ==
    /\ phase = "serving"
    /\ \E id \in Ids, r1 \in StackReplies :
       \E r2 \in RepliesIf(~getOperation(r1).failed, ExportReplies) :
          Serve("get", id, NoBody, get(server, id, r1, r2))

\* POST /sites/:id
Update ==
    /\ phase = "serving"
    /\ \E id \in Ids, body \in RequestBodies :
       \E r \in RepliesIf(~DecodeFails(body), WriteReplies) :
          Serve("update", id, body, update(server, id, body, r))

\* DELETE /sites/:id
Delete ==
    /\ phase = "serving"
    /\ \E id \in Ids, r \in WriteReplies :
          Serve("delete", id, NoBody, delete(server, id, r))

Next == Main \/ Create \/ Get \/ Update \/ Delete

Spec == Init /\ [][Next]_vars

-----------------------------------------------------------------------------
(* Vocabulary of the properties *)

\* the value of a field of an encoded JSON object, "" when the field is omitted
RECURSIVE FieldFrom(_, _, _)
FieldFrom(json, key, i) ==
    IF i > Len(json) THEN ""
    ELSE IF json[i][1] = key THEN json[i][2]
    ELSE FieldFrom(json, key, i + 1)

JsonField(json, key) == FieldFrom(json, key, 1)
HasField(json, key) == \E i \in 1..Len(json) : json[i][1] = key

LastOf(url) == IF Len(url) = 0 THEN "" ELSE url[Len(url)]

IsRegisterCall(c) == c.method = "POST" /\ Len(c.url) > 0 /\ c.url[1] = "stacks"
IsSettingsCall(c) == c.method = "POST" /\ LastOf(c.url) = "settings"
IsTriggerCall(c) == c.method = "POST" /\ LastOf(c.url) = "deployments"
IsReadCall(c) == c.method = "GET"

Answered(c, code) == ~c.reply.err /\ c.reply.code = code
Non2xx(c) == c.reply.err \/ c.reply.code < 200 \/ c.reply.code > 299

Statuses == {"IDLE", "UPDATING", "DELETING"}

\* a get in which both remote reads succeeded
BothReadsSucceed ==
    /\ handler = "get"
    /\ Len(calls) = 2
    /\ Answered(calls[1], StatusOK) /\ calls[1].reply.decodeOk
    /\ Answered(calls[2], StatusOK) /\ calls[2].reply.decodeOk
    /\ (calls[2].reply.version = DeploymentSchemaVersionCurrent
            => calls[2].reply.deployOk)

-----------------------------------------------------------------------------
(* C1 *)

\* C1: a Get whose two remote reads succeed answers IDLE when the stack has no
\* current operation, DELETING when the current operation is a destroy, and
\* UPDATING for a current operation of any other kind; it answers no other status.
C1_StatusFromOperation ==
    BothReadsSucceed =>
        LET op == calls[1].reply.op
            st == JsonField(response.json, "status")
        IN  /\ response.code = StatusOK
            /\ st \in Statuses
            /\ (~op.present => st = "IDLE")
            /\ (op.present /\ op.kind = "destroy" => st = "DELETING")
            /\ (op.present /\ op.kind # "destroy" => st = "UPDATING")

C1_Witness ==
    /\ BothReadsSucceed
    /\ calls[1].reply.op = [present |-> TRUE, kind |-> "destroy"]
    /\ JsonField(response.json, "status") = "DELETING"

-----------------------------------------------------------------------------
(* C2 *)

\* C2: when the stack registration of a Create is answered 409 (stack already
\* exists), Create goes on to send the deployment settings and, if those are
\* stored, to start the update; if that is accepted it answers 202 with the id.
C2_ConflictIsSuccess ==
    (handler = "create" /\ Len(calls) >= 1 /\ Answered(calls[1], StatusConflict)) =>
        /\ Len(calls) >= 2
        /\ IsSettingsCall(calls[2])
        /\ (Answered(calls[2], StatusOK) =>
                /\ Len(calls) = 3
                /\ IsTriggerCall(calls[3])
                /\ calls[3].body.operation = "update"
                /\ (Answered(calls[3], StatusAccepted) =>
                        /\ response.code = StatusAccepted
                        /\ response.json = <<<<"id", request.body.id>>>>))

C2_Witness ==
    /\ handler = "create"
    /\ Len(calls) = 3
    /\ Answered(calls[1], StatusConflict)
    /\ response.code = StatusAccepted
    /\ response.json = <<<<"id", "site1">>>>

-----------------------------------------------------------------------------
(* C3 *)

HasRoot(resources) == \E i \in 1..Len(resources) : resources[i].type = RootStackType

FirstRoot(resources) ==
    CHOOSE i \in 1..Len(resources) :
        /\ resources[i].type = RootStackType
        /\ \A j \in 1..(i - 1) : resources[j].type # RootStackType

UrlOmitted ==
    /\ response.code = StatusOK
    /\ ~HasField(response.json, "url")
    /\ JsonField(response.json, "id") = request.id
    /\ JsonField(response.json, "status") \in Statuses

\* C3: a Get whose stack read and export read succeed answers 200 with the id
\* and the status and without a URL when the export's schema version is not the
\* current one or the export holds no root stack resource; when a root stack
\* resource is present the URL is that of the first one in list order.
C3_UrlOmittedNotError ==
    BothReadsSucceed =>
        LET x == calls[2].reply
        IN  /\ (x.version # DeploymentSchemaVersionCurrent => UrlOmitted)
            /\ (x.version = DeploymentSchemaVersionCurrent /\ ~HasRoot(x.resources)
                    => UrlOmitted)
            /\ (x.version = DeploymentSchemaVersionCurrent /\ HasRoot(x.resources)
                    => /\ response.code = StatusOK
                       /\ JsonField(response.json, "url")
                              = x.resources[FirstRoot(x.resources)].url)

C3_Witness ==
    /\ BothReadsSucceed
    /\ calls[2].reply.version # DeploymentSchemaVersionCurrent
    /\ HasRoot(calls[2].reply.resources)
    /\ UrlOmitted

C3_WitnessFirstRoot ==
    /\ BothReadsSucceed
    /\ calls[2].reply.version = DeploymentSchemaVersionCurrent
    /\ Len(calls[2].reply.resources) = 2
    /\ calls[2].reply.resources[1].url = "http://two"
    /\ calls[2].reply.resources[2].url = "http://one"
    /\ JsonField(response.json, "url") = "http://two"

-----------------------------------------------------------------------------
(* C4 *)

\* C4: a Create or Update whose body is not well-formed JSON answers 400 and
\* issues no outbound call.
C4_MalformedIs400 ==
    (handler \in {"create", "update"} /\ request.body.kind # "valid") =>
        /\ response.code = StatusBadRequest
        /\ calls = <<>>

C4_Witness ==
    /\ handler = "update"
    /\ request.body.kind = "malformed"
    /\ response.code = StatusBadRequest

-----------------------------------------------------------------------------
(* C5 *)

Writes == {"create", "update", "delete"}

\* C5 as stated: any non-2xx answer or transport failure of an outbound call of
\* create, update or delete gives a 500.
C5_AnyNon2xxIs500 ==
    (handler \in Writes /\ \E i \in 1..Len(calls) : Non2xx(calls[i])) =>
        response.code = StatusInternalServerError

\* C5 amended: any non-2xx answer or transport failure of an outbound call of
\* create, update or delete, other than a 409 answer to the stack registration
\* of create, gives a 500, and a 202 is answered only when no call failed so.
C5_Non2xxExceptConflictIs500 ==
    handler \in Writes =>
        LET failed(c) ==
                Non2xx(c) /\ ~(IsRegisterCall(c) /\ Answered(c, StatusConflict))
        IN  /\ (\E i \in 1..Len(calls) : failed(calls[i]))
                   => response.code = StatusInternalServerError
            /\ response.code = StatusAccepted
                   => \A i \in 1..Len(calls) : ~failed(calls[i])

C5_Witness ==
    /\ handler = "delete"
    /\ Len(calls) = 1
    /\ calls[1].reply.err
    /\ response.code = StatusInternalServerError

-----------------------------------------------------------------------------
(* C6 *)

\* C6: an Update with a well-formed body and a Delete answer 202 exactly when
\* the deployment trigger they issue is answered 202; the 202 has an empty
\* body, and the trigger is the only outbound call: the stack is not read.
C6_AcceptedEmpty ==
    (handler \in {"update", "delete"} /\ (handler = "update" => request.body.kind = "valid"))
        => /\ Len(calls) = 1
           /\ IsTriggerCall(calls[1])
           /\ ~IsReadCall(calls[1])
           /\ (response.code = StatusAccepted <=> Answered(calls[1], StatusAccepted))
           /\ (response.code = StatusAccepted
                   => response.text = "" /\ response.json = <<>>)

C6_Witness ==
    /\ handler = "update"
    /\ Len(calls) = 1
    /\ Answered(calls[1], StatusAccepted)
    /\ response = [code |-> StatusAccepted, text |-> "", json |-> <<>>]

-----------------------------------------------------------------------------
(* C7 *)

\* C7: every 500 carries the same fixed body, whatever the upstream error body
\* or transport error text was; the upstream detail goes to the log.
C7_GenericBody ==
    response.code = StatusInternalServerError =>
        /\ response.text = "Internal Server Error"
        /\ response.json = <<>>
        /\ Len(calls) >= 1
        /\ Len(logged) >= 1
        /\ (handler \in Writes =>
                logged[Len(logged)][3] = calls[Len(calls)].reply.body)

C7_Witness ==
    /\ handler = "create"
    /\ response.code = StatusInternalServerError
    /\ Len(calls) = 2
    /\ calls[2].reply.body = "upstream secret"
    /\ logged[Len(logged)][3] = "upstream secret"

-----------------------------------------------------------------------------
(* C8 *)

RequiredFlagsSet ==
    flags.repository # "" /\ flags.roleARN # "" /\ flags.apiToken # ""
        /\ flags.project # ""

LookupGaveOrg ==
    /\ Len(calls) = 1
    /\ calls[1].url = <<"user">>
    /\ Answered(calls[1], StatusOK)
    /\ calls[1].reply.decodeOk
    /\ Len(calls[1].reply.orgs) >= 1

\* C8: requests are served only when repository, role, token and project are
\* configured. Right after main: the service serves exactly when these are set
\* and either an organization is configured (it is used, and no lookup is made)
\* or the current-user lookup succeeded with a non-empty list (its first
\* organization is used); in every other case, the empty list included, the
\* process has ended without serving.
C8_ServesOnlyConfigured ==
    /\ phase = "serving" =>
          /\ RequiredFlagsSet
          /\ server.repository = flags.repository
          /\ server.roleARN = flags.roleARN
          /\ server.apiToken = flags.apiToken
          /\ server.project = flags.project
          /\ (flags.org # "" => server.org = flags.org)
    /\ handler \in Writes \cup {"get"} => phase = "serving"
    /\ handler = "main" =>
          /\ phase \in {"serving", "fatal", "panic"}
          /\ phase = "serving" <=>
                (RequiredFlagsSet /\ (flags.org # "" \/ LookupGaveOrg))
          /\ (phase = "serving" /\ flags.org # "" => calls = <<>>)
          /\ (phase = "serving" /\ flags.org = ""
                  => server.org = calls[1].reply.orgs[1])

C8_Witness ==
    /\ handler = "main"
    /\ phase = "serving"
    /\ flags.org = ""
    /\ calls[1].reply.orgs = <<"org2", "org1">>
    /\ server.org = "org2"

C8_WitnessEmptyList ==
    /\ handler = "main"
    /\ phase = "panic"
    /\ Len(calls) = 1
    /\ Answered(calls[1], StatusOK)
    /\ calls[1].reply.orgs = <<>>

-----------------------------------------------------------------------------
(* C9 *)

\* C9: Create issues register stack, configure settings, start update in that
\* order, each only after the previous one succeeded; it answers 202 only after
\* all three succeeded; when a step fails it answers 500 and that step is the
\* last call: no later step and no delete or destroy follows.
C9_CreateInOrder ==
    (handler = "create" /\ request.body.kind = "valid") =>
        LET n == Len(calls)
            ok(i) == IF i = 1 THEN Answered(calls[1], StatusOK)
                                       \/ Answered(calls[1], StatusConflict)
                     ELSE IF i = 2 THEN Answered(calls[2], StatusOK)
                     ELSE Answered(calls[3], StatusAccepted)
        IN  /\ n \in 1..3
            /\ IsRegisterCall(calls[1])
            /\ (n >= 2 => IsSettingsCall(calls[2]))
            /\ (n >= 3 => IsTriggerCall(calls[3]) /\ calls[3].body.operation = "update")
            /\ \A i \in 1..(n - 1) : ok(i)
            /\ (response.code = StatusAccepted <=> (n = 3 /\ \A i \in 1..3 : ok(i)))
            /\ (response.code # StatusAccepted
                    => response.code = StatusInternalServerError /\ ~ok(n))
            /\ \A i \in 1..n :
                  calls[i].method # "DELETE" /\ calls[i].body.operation # "destroy"

C9_Witness ==
    /\ handler = "create"
    /\ Len(calls) = 2
    /\ Answered(calls[1], StatusOK)
    /\ Answered(calls[2], StatusInternalServerError)
    /\ response.code = StatusInternalServerError

-----------------------------------------------------------------------------
(* C10 *)

\* C10: an Update with a well-formed body issues exactly one outbound call: a
\* deployment trigger on stack id with operation "update", inheritSettings
\* true and the new content as its only environment variable, carrying no other
\* setting. Neither Update nor Delete calls the deployment-settings or the
\* stack-registration endpoint: only Create calls the settings endpoint.
C10_SettingsOnlyOnCreate ==
    /\ (handler = "update" /\ request.body.kind = "valid") =>
          /\ Len(calls) = 1
          /\ calls[1].method = "POST"
          /\ calls[1].url = <<"preview", server.org, server.project, request.id,
                              "deployments">>
          /\ calls[1].body.operation = "update"
          /\ calls[1].body.inheritSettings
          /\ calls[1].body.settings.environmentVariables
                 = <<<<"SITE_CONTENT", request.body.content>>>>
          /\ calls[1].body.settings.repository = ""
          /\ calls[1].body.settings.roleArn = ""
          /\ calls[1].body.settings.branch = ""
    /\ (handler = "delete") =>
          /\ Len(calls) = 1
          /\ calls[1].body.operation = "destroy"
          /\ calls[1].body.inheritSettings
          /\ calls[1].body.settings = ZeroSettings
    /\ \A i \in 1..Len(calls) :
          (IsSettingsCall(calls[i]) \/ IsRegisterCall(calls[i])) => handler = "create"

C10_Witness ==
    /\ handler = "update"
    /\ request = [id |-> "site2",
                  body |-> [kind |-> "valid", id |-> "site1", content |-> "bye"]]
    /\ Len(calls) = 1
    /\ calls[1].body.settings.environmentVariables = <<<<"SITE_CONTENT", "bye">>>>
    /\ calls[1].body.inheritSettings

====
